---- MODULE Spec2Model ----
(***************************************************************************)
(* A model of add_bit.py: the interactive helper that structures freeform  *)
(* text into a "bit", lets the user edit it as JSON in an editor, and      *)
(* prepends it to data/bits.json.                                          *)
(*                                                                         *)
(* Text is modelled as a sequence of one-character strings, so that        *)
(* str.lower, str.strip, re.sub and slicing are computed character by      *)
(* character.  JSON text is modelled as a sequence of tokens, so that      *)
(* json.dumps and json.loads are a real printer and a real parser.         *)
(***************************************************************************)
EXTENDS Integers, Sequences, FiniteSets, TLC

VARIABLES
    pc,        \* position of the process in main / open_in_editor / add_bit
    exitCode,  \* exit status of the process, -1 while it runs
    apiKey,    \* whether ANTHROPIC_API_KEY is set in the environment
    text,      \* main: the text returned by get_user_input
    bit,       \* main: the local variable bit (a JSON value)
    confirm,   \* main: the local variable confirm (normalised answer)
    answer,    \* the last line the user typed at a [Y/n] prompt, as typed
    stack,     \* the active open_in_editor frames, innermost last
    content,   \* open_in_editor: the text read back in the innermost frame
    pending,   \* the value being returned / exception being raised while unwinding
    files,     \* the temporary files on disk: path -> content
    created,   \* every temporary path created during this run
    store,     \* the contents of data/bits.json: a sequence of records
    store0,    \* the contents of data/bits.json when this run started
    now,       \* the millisecond clock
    runs,      \* how many times the program has been started
    slugIn,    \* slugify: its argument
    slugOut,   \* slugify: its result
    slugPc     \* slugify: "call" before, "done" after

vars == <<pc, exitCode, apiKey, text, bit, confirm, answer, stack, content,
          pending, files, created, store, store0, now, runs,
          slugIn, slugOut, slugPc>>

mainVars == <<pc, exitCode, apiKey, text, bit, confirm, answer, stack, content,
              pending, files, created, store, store0, now, runs>>

slugVars == <<slugIn, slugOut, slugPc>>

-----------------------------------------------------------------------------
(* Bounds of the model *)

\* how many open_in_editor frames may be active at once (re-edit rounds)
MaxRounds == 3
\* how many times the program is run against the same store
MaxRuns == 2
\* slugify inputs: up to MaxPad letters "a" followed by a free suffix
MaxPad == 51
\* slugify inputs: the longest free suffix
MaxSuffix == 2

(* Program constants *)

\* text[:50] in slugify
SlugMax == 50

-----------------------------------------------------------------------------
(* Characters and strings *)

Min(a, b) == IF a < b THEN a ELSE b

LowerLetters ==
    {"a","b","c","d","e","f","g","h","i","j","k","l","m",
     "n","o","p","q","r","s","t","u","v","w","x","y","z"}

Digits == {"0","1","2","3","4","5","6","7","8","9"}

\* the class [a-z0-9] of the regular expression in slugify
SlugChars == LowerLetters \cup Digits

Whitespace == {" ", "\t", "\n"}

\* str.lower, one character at a time, on the characters the model uses
LowerChar(c) ==
    CASE c = "A" -> "a"
      [] c = "B" -> "b"
      [] c = "E" -> "e"
      [] c = "H" -> "h"
      [] c = "N" -> "n"
      [] c = "Y" -> "y"
      [] c = "É" -> "é"
      [] OTHER -> c

\* str.lower
Lower(s) == [i \in 1..Len(s) |-> LowerChar(s[i])]

RECURSIVE LStrip(_)
LStrip(s) ==
    IF s # <<>> /\ Head(s) \in Whitespace THEN LStrip(Tail(s)) ELSE s

RECURSIVE RStrip(_)
RStrip(s) ==
    IF s # <<>> /\ s[Len(s)] \in Whitespace
    THEN RStrip(SubSeq(s, 1, Len(s) - 1))
    ELSE s

\* str.strip
Strip(s) == RStrip(LStrip(s))

\* input(...).strip().lower()
Normalise(s) == Lower(Strip(s))

\* the decimal digits of a natural number, as str(int) prints them
RECURSIVE ToDigits(_)
ToDigits(n) ==
    LET d == <<"0","1","2","3","4","5","6","7","8","9">>[(n % 10) + 1]
    IN IF n < 10 THEN <<d>> ELSE ToDigits(n \div 10) \o <<d>>

-----------------------------------------------------------------------------
(* slugify *)

RECURSIVE DropNonSlug(_)
DropNonSlug(s) ==
    IF s # <<>> /\ Head(s) \notin SlugChars THEN DropNonSlug(Tail(s)) ELSE s

\* re.sub(r"[^a-z0-9]+", "-", text): every maximal run becomes one hyphen
RECURSIVE CollapseRuns(_)
CollapseRuns(s) ==
    IF s = <<>> THEN <<>>
    ELSE IF Head(s) \in SlugChars
         THEN <<Head(s)>> \o CollapseRuns(Tail(s))
         ELSE <<"-">> \o CollapseRuns(DropNonSlug(Tail(s)))

\* re.sub(r"^-|-$", "", text): one leading and one trailing hyphen go
TrimHyphens(s) ==
    LET a == IF s # <<>> /\ Head(s) = "-" THEN Tail(s) ELSE s
    IN IF a # <<>> /\ a[Len(a)] = "-" THEN SubSeq(a, 1, Len(a) - 1) ELSE a

\* text[:50]
Truncate(s) == SubSeq(s, 1, Min(Len(s), SlugMax))

slugify(s) == Truncate(TrimHyphens(CollapseRuns(Lower(s))))

-----------------------------------------------------------------------------
(* JSON values.  A value is a record [k, s, l, m]: a string (s, its          *)
(* characters), a list of strings (l), null, an object (m: key -> value,    *)
(* keys being strings), or the parse error json.loads raises.  Objects     *)
(* hold strings, lists and null; Python compares dicts regardless of the   *)
(* order of their keys, as functions compare here.                         *)

VStr(s)  == [k |-> "str",  s |-> s,    l |-> <<>>, m |-> <<>>]
VList(l) == [k |-> "list", s |-> <<>>, l |-> l,    m |-> <<>>]
VNull    == [k |-> "null", s |-> <<>>, l |-> <<>>, m |-> <<>>]
VDict(m) == [k |-> "dict", s |-> <<>>, l |-> <<>>, m |-> m]
\* json.JSONDecodeError
JSONDecodeError == [k |-> "error", s |-> <<>>, l |-> <<>>, m |-> <<>>]

\* Python truthiness of a JSON value: "", [], None and {} are falsy
Truthy(v) ==
    CASE v.k = "str"  -> v.s # <<>>
      [] v.k = "list" -> v.l # <<>>
      [] v.k = "dict" -> DOMAIN v.m # {}
      [] OTHER -> FALSE

\* the keys of the Bit schema and of the derived fields
K_title   == <<"t","i","t","l","e">>
K_url     == <<"u","r","l">>
K_content == <<"c","o","n","t","e","n","t">>
K_tags    == <<"t","a","g","s">>
K_via     == <<"v","i","a">>
K_id      == <<"i","d">>
K_date    == <<"d","a","t","e">>
K_note    == <<"n","o","t","e">>

\* the order in which json.dumps prints the keys of an object (a dict keeps
\* its insertion order; the model prints every object in this one order)
KeyOrder == <<K_title, K_url, K_content, K_tags, K_via, K_id, K_date, K_note>>

\* tokens of JSON text: punctuation, string literals, the literal null, and
\* the white space the pretty-printer emits
Tok(t, s) == [t |-> t, s |-> s]
Punct(c)  == Tok(c, <<>>)
StrTok(s) == Tok("str", s)
Newline   == Punct("nl")

RECURSIVE DumpItems(_)
DumpItems(l) ==
    IF l = <<>> THEN <<>>
    ELSE <<StrTok(Head(l))>>
         \o (IF Len(l) > 1 THEN <<Punct(",")>> ELSE <<>>)
         \o DumpItems(Tail(l))

\* json.dumps of a string, a list of strings or null
DumpSimple(v) ==
    CASE v.k = "str"  -> <<StrTok(v.s)>>
      [] v.k = "list" -> <<Punct("[")>> \o DumpItems(v.l) \o <<Punct("]")>>
      [] OTHER -> <<Punct("null")>>

RECURSIVE DumpMembers(_, _)
DumpMembers(m, keys) ==
    IF keys = <<>> THEN <<>>
    ELSE <<StrTok(Head(keys)), Punct(":")>> \o DumpSimple(m[Head(keys)])
         \o (IF Len(keys) > 1 THEN <<Punct(",")>> ELSE <<>>)
         \o DumpMembers(m, Tail(keys))

KeysInOrder(m) ==
    LET Present(key) == key \in DOMAIN m
    IN SelectSeq(KeyOrder, Present)

\* json.dumps(data, indent=2, ensure_ascii=False)
Dumps(v) ==
    IF v.k = "dict"
    THEN <<Punct("{")>> \o DumpMembers(v.m, KeysInOrder(v.m)) \o <<Punct("}")>>
    ELSE DumpSimple(v)

\* a parser's result: the value parsed (or the error) and the tokens left
Parsed(v, rest) == [v |-> v, rest |-> rest]
Failed == Parsed(JSONDecodeError, <<>>)

DropTokens(toks, n) == SubSeq(toks, n + 1, Len(toks))

\* the elements of a list, after "[" and a first look that was not "]"
RECURSIVE ParseItems(_, _)
ParseItems(toks, acc) ==
    IF Len(toks) < 2 \/ toks[1].t # "str" THEN Failed
    ELSE LET acc2 == Append(acc, toks[1].s)
         IN CASE toks[2].t = "]" -> Parsed(VList(acc2), DropTokens(toks, 2))
              [] toks[2].t = "," -> ParseItems(DropTokens(toks, 2), acc2)
              [] OTHER -> Failed

\* a string, null, or a list of strings
ParseSimple(toks) ==
    IF toks = <<>> THEN Failed
    ELSE CASE toks[1].t = "str"  -> Parsed(VStr(toks[1].s), Tail(toks))
           [] toks[1].t = "null" -> Parsed(VNull, Tail(toks))
           [] toks[1].t = "["    ->
                IF Len(toks) >= 2 /\ toks[2].t = "]"
                THEN Parsed(VList(<<>>), DropTokens(toks, 2))
                ELSE ParseItems(Tail(toks), <<>>)
           [] OTHER -> Failed

\* dict[key] = value: a repeated key keeps the last value
Put(m, key, v) ==
    [x \in (DOMAIN m) \cup {key} |-> IF x = key THEN v ELSE m[x]]

\* the members of an object, after "{" and a first look that was not "}"
RECURSIVE ParseMembers(_, _)
ParseMembers(toks, acc) ==
    IF Len(toks) < 3 \/ toks[1].t # "str" \/ toks[2].t # ":" THEN Failed
    ELSE LET val == ParseSimple(DropTokens(toks, 2))
         IN IF val.v.k = "error" \/ val.rest = <<>> THEN Failed
            ELSE LET acc2 == Put(acc, toks[1].s, val.v)
                 IN CASE val.rest[1].t = "}" ->
                            Parsed(VDict(acc2), Tail(val.rest))
                      [] val.rest[1].t = "," ->
                            ParseMembers(Tail(val.rest), acc2)
                      [] OTHER -> Failed

ParseValue(toks) ==
    IF toks # <<>> /\ toks[1].t = "{"
    THEN IF Len(toks) >= 2 /\ toks[2].t = "}"
         THEN Parsed(VDict(<<>>), DropTokens(toks, 2))
         ELSE ParseMembers(Tail(toks), <<>>)
    ELSE ParseSimple(toks)

\* json.loads: white space is skipped, one value is parsed, and anything
\* left over is an error ("Extra data")
Loads(toks) ==
    LET NotSpace(t) == t.t # "nl"
        r == ParseValue(SelectSeq(toks, NotSpace))
    IN IF r.v.k # "error" /\ r.rest = <<>> THEN r.v ELSE JSONDecodeError

-----------------------------------------------------------------------------
(* data/bits.json: a JSON list of objects, pretty-printed, newline at end *)

RECURSIVE DumpRecords(_)
DumpRecords(l) ==
    IF l = <<>> THEN <<>>
    ELSE Dumps(Head(l))
         \o (IF Len(l) > 1 THEN <<Punct(",")>> ELSE <<>>)
         \o DumpRecords(Tail(l))

\* json.dump(bits, f, indent=2, ensure_ascii=False); f.write("\n")
DumpStore(l) == <<Punct("[")>> \o DumpRecords(l) \o <<Punct("]"), Newline>>

RECURSIVE ParseRecords(_, _)
ParseRecords(toks, acc) ==
    LET r == ParseValue(toks)
    IN IF r.v.k = "error" \/ r.rest = <<>> THEN Failed
       ELSE CASE r.rest[1].t = "]" ->
                    Parsed(VList(Append(acc, r.v)), Tail(r.rest))
              [] r.rest[1].t = "," ->
                    ParseRecords(Tail(r.rest), Append(acc, r.v))
              [] OTHER -> Failed

\* json.load(f) of the store: the list of records, or JSONDecodeError
LoadStore(toks) ==
    LET NotSpace(t) == t.t # "nl"
        ts == SelectSeq(toks, NotSpace)
        r == IF ts = <<>> \/ ts[1].t # "[" THEN Failed
             ELSE IF Len(ts) >= 2 /\ ts[2].t = "]"
                  THEN Parsed(VList(<<>>), DropTokens(ts, 2))
                  ELSE ParseRecords(Tail(ts), <<>>)
    IN IF r.v.k # "error" /\ r.rest = <<>> THEN r.v ELSE JSONDecodeError

-----------------------------------------------------------------------------
(* Exceptions and the exit status of the process *)

\* what is travelling up the call stack: nothing, a returned value, or a
\* raised exception with its argument
NoPending       == [kind |-> "none",   arg |-> "", v |-> VNull]
Return(v)       == [kind |-> "return", arg |-> "", v |-> v]
Raise(kind, arg) == [kind |-> kind, arg |-> arg, v |-> VNull]

\* the status the interpreter exits with: sys.exit(n) gives n, SystemExit
\* with a string prints it and gives 1, any other uncaught exception gives 1,
\* and falling off the end of main gives 0
ExitStatus(p) ==
    CASE p.kind \in {"none", "return"} -> 0
      [] p.kind = "SystemExit" /\ p.arg = "0" -> 0
      [] p.kind = "SystemExit" /\ p.arg = "1" -> 1
      [] OTHER -> 1

-----------------------------------------------------------------------------
(* add_bit: the record that is persisted *)

\* a variant that forgets the tags
OptionalKeysNoTags == {K_url, K_content, K_via}

\* for key in ["url", "content", "via"] and "tags": deleted when falsy
OptionalKeys == {K_url, K_content, K_via, K_tags}

\* time.strftime("%Y-%m-%d")
Today == <<"2","0","2","6","-","1","1","-","0","4">>

\* f"{slugify(bit['title'])}-{int(time.time() * 1000)}"
MakeId(title, ms) == slugify(title) \o <<"-">> \o ToDigits(ms)

\* bit["id"] = ...; bit["date"] = ...; the falsy optional fields deleted
Finalize(m, ms) ==
    LET withMeta == Put(Put(m, K_id, VStr(MakeId(m[K_title].s, ms))),
                        K_date, VStr(Today))
        keep == {key \in DOMAIN withMeta :
                    ~(key \in OptionalKeys /\ ~Truthy(withMeta[key]))}
    IN [key \in keep |-> withMeta[key]]

\* a variant that appends at the end
InsertAtEnd(bits, rec) == Append(bits, rec)

\* bits.insert(0, bit)
Insert(bits, rec) == <<rec>> \o bits

\* the exception add_bit raises before it writes, or "none"
AddBitError(b) ==
    CASE b.k # "dict" -> "TypeError"
      [] K_title \notin DOMAIN b.m -> "KeyError"
      [] b.m[K_title].k # "str" -> "AttributeError"
      [] OTHER -> "none"

-----------------------------------------------------------------------------
(* The inputs the environment may supply *)

\* a value no assignment of the program produces: the variable is not bound
Unset == <<"<unset>">>

\* the lines typed at the "> " prompt before the empty line
TypedLines ==
    { <<>>,
      << <<" ">> >>,
      << <<" ">>, <<"\t">> >>,
      << <<"h","i">> >> }

\* "\n".join(lines)
RECURSIVE Join(_)
Join(lines) ==
    IF lines = <<>> THEN <<>>
    ELSE IF Len(lines) = 1 THEN Head(lines)
         ELSE Head(lines) \o <<"\n">> \o Join(Tail(lines))

\* the tool_use inputs the structuring call may return
ClaudeOutputs ==
    { VDict([key \in {K_title, K_url, K_tags} |->
                CASE key = K_title -> VStr(<<"H","i","!">>)
                  [] key = K_url   -> VStr(<<>>)
                  [] OTHER         -> VList(<<>>)]),
      VDict([key \in {K_title, K_url, K_content, K_tags, K_via} |->
                CASE key = K_title   -> VStr(<<"A"," ","b">>)
                  [] key = K_url     -> VStr(<<"x">>)
                  [] key = K_content -> VStr(<<>>)
                  [] key = K_tags    -> VList(<< <<"a">> >>)
                  [] OTHER           -> VStr(<<>>)]) }

\* the values the user may rewrite the file to
Rewrites ==
    { VDict([key \in {K_title} |-> VStr(<<>>)]),
      VDict([key \in {K_url} |-> VStr(<<"x">>)]),
      VDict([key \in {K_title, K_id, K_note, K_tags, K_via, K_content} |->
                CASE key = K_title   -> VStr(<<"-","N","-">>)
                  [] key = K_id      -> VStr(<<"x">>)
                  [] key = K_note    -> VNull
                  [] key = K_tags    -> VStr(<<"t">>)
                  [] key = K_via     -> VNull
                  [] OTHER           -> VStr(<<"c">>)]),
      VList(<<>>) }

\* what the file may hold when the editor exits: left as it was, rewritten
\* to other JSON, cut short before its last token, or emptied
EditorWrites(old) ==
    {old}
    \cup { Dumps(v) \o <<Newline>> : v \in Rewrites }
    \cup { SubSeq(old, 1, Len(old) - 2) \o <<Newline>>, <<>> }

\* what the user may type at a [Y/n] prompt
Answers == { <<>>, <<"y">>, <<"n">>, <<"N">>, <<" ","n">>, <<"n","o">> }

\* the stores a run may start from
OldRecord ==
    VDict([key \in {K_title, K_id, K_date} |->
              CASE key = K_title -> VStr(<<"o","l","d">>)
                [] key = K_id    -> VStr(<<"o","l","d","-","1">>)
                [] OTHER         -> VStr(Today)])

InitialStores == { DumpStore(<<>>), DumpStore(<<OldRecord>>) }

-----------------------------------------------------------------------------
(* The process *)

MainInit ==
    /\ pc = "start"
    /\ exitCode = -1
    /\ apiKey \in BOOLEAN
    /\ text = Unset
    /\ bit = VNull
    /\ confirm = Unset
    /\ answer = Unset
    /\ stack = <<>>
    /\ content = Unset
    /\ pending = NoPending
    /\ files = {}
    /\ created = {}
    /\ store \in InitialStores
    /\ store0 = store
    /\ now = 7
    /\ runs = 1

SlugIdle ==
    /\ slugIn = <<>>
    /\ slugOut = <<>>
    /\ slugPc = "idle"

Init == MainInit /\ SlugIdle

\* the process ends with the exception (or normal return) p
Exit(p) ==
    /\ pc' = "done"
    /\ pending' = p
    /\ exitCode' = ExitStatus(p)

\* main, lines 192-195
CheckApiKey ==
    /\ pc = "start"
    /\ IF ~apiKey
       THEN Exit(Raise("SystemExit", "1"))
       ELSE pc' = "input" /\ UNCHANGED <<pending, exitCode>>
    /\ UNCHANGED <<apiKey, text, bit, confirm, answer, stack, content, files,
                   created, store, store0, now, runs, slugVars>>

\* open_in_editor, lines 110-123: the draft is serialised and written to a
\* fresh temporary file
EnterEditor(data) ==
    LET json_str == Dumps(data)
        temp_path == Cardinality(created) + 1
    IN /\ stack' = Append(stack, [json_str |-> json_str, temp_path |-> temp_path])
       /\ files' = files \cup {[path |-> temp_path,
                                content |-> json_str \o <<Newline>>]}
       /\ created' = created \cup {temp_path}
       /\ pc' = "edit"

\* main, lines 197-201, with get_user_input, lines 24-36
GetInput ==
    /\ pc = "input"
    /\ \E lines \in TypedLines :
         /\ text' = Join(lines)
         /\ IF Strip(text') = <<>>
            THEN Exit(Raise("SystemExit", "0"))
            ELSE pc' = "structure" /\ UNCHANGED <<pending, exitCode>>
    /\ UNCHANGED <<apiKey, bit, confirm, answer, stack, content, files,
                   created, store, store0, now, runs, slugVars>>

\* main, lines 203-209: the structuring call fails, and main exits 1
StructureFails ==
    /\ pc = "structure"
    /\ Exit(Raise("SystemExit", "1"))
    /\ UNCHANGED <<apiKey, text, bit, confirm, answer, stack, content, files,
                   created, store, store0, now, runs, slugVars>>

\* main, lines 203-213: the structuring call returns a mapping, and the
\* editor loop is entered with it
StructureAndOpen ==
    /\ pc = "structure"
    /\ \E out \in ClaudeOutputs :
         /\ bit' = out
         /\ EnterEditor(out)
    /\ UNCHANGED <<apiKey, text, confirm, answer, content, pending, exitCode,
                   store, store0, now, runs, slugVars>>

Top == stack[Len(stack)]

FileAt(path) == CHOOSE f \in files : f.path = path

\* open_in_editor, line 127: the editor exits with status 0, having left
\* the file with some content
EditorExitsOk ==
    /\ pc = "edit"
    /\ \E new \in EditorWrites(FileAt(Top.temp_path).content) :
         files' = (files \ {FileAt(Top.temp_path)})
                  \cup {[path |-> Top.temp_path, content |-> new]}
    /\ pc' = "parse"
    /\ UNCHANGED <<apiKey, text, bit, confirm, answer, stack, content,
                   pending, exitCode, created, store, store0, now, runs,
                   slugVars>>

\* open_in_editor, line 127: the editor exits with a non-zero status, and
\* check=True raises CalledProcessError
EditorFails ==
    /\ pc = "edit"
    /\ pc' = "unwind"
    /\ pending' = Raise("CalledProcessError", "editor")
    /\ UNCHANGED <<apiKey, text, bit, confirm, answer, stack, content,
                   exitCode, files, created, store, store0, now, runs,
                   slugVars>>

\* a variant that returns the draft the file was opened with
ParseResultDraft(json_str, read) == Loads(json_str)

\* open_in_editor, line 135: json.loads(content)
ParseResult(json_str, read) == Loads(read)

\* open_in_editor, lines 130-137: the file is read back and parsed
ReadAndParse ==
    /\ pc = "parse"
    /\ content' = FileAt(Top.temp_path).content
    /\ LET v == ParseResult(Top.json_str, content')
       IN IF v.k # "error"
          THEN pc' = "unwind" /\ pending' = Return(v)
          ELSE pc' = "prompt" /\ UNCHANGED pending
    /\ UNCHANGED <<apiKey, text, bit, confirm, answer, stack, exitCode,
                   files, created, store, store0, now, runs, slugVars>>

\* a variant that tests for "no" instead of "n"
DeclinesOnNo(normalised) == normalised = <<"n","o">>

\* retry != "n" / confirm == "n": the answer that declines
Declines(normalised) == normalised = <<"n">>

\* a variant that re-opens with what the broken edit parses to
RetryDraftFromEdit(json_str, read) == Loads(read)

\* open_in_editor, line 140: the draft the next round is opened with
RetryDraft(json_str, read) == Loads(json_str)

\* open_in_editor, lines 138-142: the answer to "Re-edit? [Y/n] "
AnswerReEdit ==
    /\ pc = "prompt"
    /\ \E typed \in Answers :
         /\ answer' = typed
         /\ IF ~Declines(Normalise(typed))
            THEN /\ Len(stack) < MaxRounds
                 /\ EnterEditor(RetryDraft(Top.json_str, content))
                 /\ UNCHANGED pending
            ELSE /\ pc' = "unwind"
                 /\ pending' = Raise("SystemExit", "Aborted")
                 /\ UNCHANGED <<stack, files, created>>
    /\ UNCHANGED <<apiKey, text, bit, confirm, content, exitCode, store,
                   store0, now, runs, slugVars>>

\* a variant that leaves the file on disk
UnlinkSkipped(fs, path) == fs

\* a variant that removes every temporary file, not only this frame's
UnlinkAll(fs, path) == {}

\* os.unlink(temp_path)
Unlink(fs, path) == {f \in fs : f.path # path}

\* open_in_editor, lines 143-144, in a frame that another frame of
\* open_in_editor called: the file is unlinked and the value or exception
\* goes on to the caller (line 140)
FinallyInner ==
    /\ pc = "unwind"
    /\ Len(stack) > 1
    /\ files' = Unlink(files, Top.temp_path)
    /\ stack' = SubSeq(stack, 1, Len(stack) - 1)
    /\ UNCHANGED <<pc, apiKey, text, bit, confirm, answer, content, pending,
                   exitCode, created, store, store0, now, runs, slugVars>>

\* open_in_editor, lines 143-144, in the frame main called: the file is
\* unlinked, and main goes on with the value (lines 213-217) or the process
\* ends with the exception
FinallyOuter ==
    /\ pc = "unwind"
    /\ Len(stack) = 1
    /\ files' = Unlink(files, Top.temp_path)
    /\ stack' = <<>>
    /\ IF pending.kind = "return"
       THEN /\ bit' = pending.v
            /\ pc' = "confirm"
            /\ UNCHANGED <<pending, exitCode>>
       ELSE /\ Exit(pending)
            /\ UNCHANGED bit
    /\ UNCHANGED <<apiKey, text, confirm, answer, content, created, store,
                   store0, now, runs, slugVars>>

\* main, lines 218-221: the answer to "Add this bit? [Y/n] "
Confirm ==
    /\ pc = "confirm"
    /\ \E typed \in Answers :
         /\ answer' = typed
         /\ confirm' = Normalise(typed)
         /\ IF Declines(confirm')
            THEN Exit(Raise("SystemExit", "0"))
            ELSE pc' = "add_bit" /\ UNCHANGED <<pending, exitCode>>
    /\ UNCHANGED <<apiKey, text, bit, stack, content, files, created, store,
                   store0, now, runs, slugVars>>

\* add_bit, lines 160-188, up to its return to main and the end of main
AddBit ==
    /\ pc = "add_bit"
    /\ LET bits == LoadStore(store)
           err == AddBitError(bit)
       IN IF err # "none"
          THEN /\ Exit(Raise(err, "add_bit"))
               /\ UNCHANGED <<bit, store>>
          ELSE LET rec == VDict(Finalize(bit.m, now))
               IN /\ bit' = rec
                  /\ store' = DumpStore(Insert(bits.l, rec))
                  /\ \/ Exit(NoPending)
                     \/ Exit(Raise("CalledProcessError", "rebuild"))
    /\ UNCHANGED <<apiKey, text, confirm, answer, stack, content, files,
                   created, store0, now, runs, slugVars>>

\* the program is started again, later, against the store the last run left
Restart ==
    /\ pc = "done"
    /\ runs < MaxRuns
    /\ runs' = runs + 1
    /\ now' = now + 1
    /\ pc' = "start"
    /\ exitCode' = -1
    /\ apiKey' \in BOOLEAN
    /\ text' = Unset
    /\ bit' = VNull
    /\ confirm' = Unset
    /\ answer' = Unset
    /\ content' = Unset
    /\ pending' = NoPending
    /\ created' = {}
    /\ store0' = store
    /\ UNCHANGED <<stack, files, store, slugVars>>

Next ==
    \/ CheckApiKey
    \/ GetInput
    \/ StructureFails
    \/ StructureAndOpen
    \/ EditorExitsOk
    \/ EditorFails
    \/ ReadAndParse
    \/ AnswerReEdit
    \/ FinallyInner
    \/ FinallyOuter
    \/ Confirm
    \/ AddBit
    \/ Restart

Spec == Init /\ [][Next]_vars

-----------------------------------------------------------------------------
(* slugify on its own: the argument is drawn from the inputs below, and    *)
(* the one step applies the function                                       *)

SlugAlphabet == {"a", "A", "1", "-", " ", "É"}

RECURSIVE Pad(_)
Pad(n) == IF n = 0 THEN <<>> ELSE <<"a">> \o Pad(n - 1)

SuffixesOf(n) == UNION {[1..k -> SlugAlphabet] : k \in 0..n}

SlugInputs == {Pad(n) \o suf : n \in 0..MaxPad, suf \in SuffixesOf(MaxSuffix)}

MainIdle ==
    /\ pc = "idle"
    /\ exitCode = -1
    /\ apiKey = FALSE
    /\ text = Unset
    /\ bit = VNull
    /\ confirm = Unset
    /\ answer = Unset
    /\ stack = <<>>
    /\ content = Unset
    /\ pending = NoPending
    /\ files = {}
    /\ created = {}
    /\ store = DumpStore(<<>>)
    /\ store0 = store
    /\ now = 7
    /\ runs = 1

SlugInit ==
    /\ MainIdle
    /\ slugIn \in SlugInputs
    /\ slugOut = <<>>
    /\ slugPc = "call"

CallSlugify ==
    /\ slugPc = "call"
    /\ slugOut' = slugify(slugIn)
    /\ slugPc' = "done"
    /\ UNCHANGED <<slugIn, mainVars>>

SlugNext == CallSlugify

SlugSpec == SlugInit /\ [][SlugNext]_vars

-----------------------------------------------------------------------------
(* Properties *)

Records(toks) == LoadStore(toks).l

TempPaths == {f.path : f \in files}

\* the content of the temporary file of the innermost round
TopFile == FileAt(Top.temp_path).content

\* C1: data/bits.json is written only after the final "Add this bit?"
\* prompt was answered with something other than n/N; on every other path
\* (no API key, empty input, structuring failure, editor failure, re-edit
\* declined, confirmation declined) it holds what it held at program start.
C1_StoreWrittenOnlyAfterConfirm ==
    /\ store # store0 =>
         /\ pc = "done"
         /\ confirm \notin {Unset, <<"n">>}
         /\ answer \notin {<<"n">>, <<"N">>}
         /\ confirm = Normalise(answer)
         /\ pending.kind \in {"none", "CalledProcessError"}
    /\ ( \/ pc # "done"
         \/ ~apiKey
         \/ Strip(text) = <<>>
         \/ created = {}
         \/ pending.arg \in {"editor", "Aborted"}
         \/ confirm = <<"n">> ) => store = store0

\* C1 witness: a run that was confirmed has written the store
C1_Witness ==
    /\ pc = "done"
    /\ store # store0
    /\ answer = <<>>
    /\ exitCode = 0

\* C2: with an editor that exits successfully, content that parses ends the
\* loop in Confirmed with exactly the mapping parsed from that content; and
\* invalid content followed by "n" ends it in Aborted: SystemExit travels up
\* through every frame and main never receives a mapping.
C2_EditLoopOutcome ==
    /\ pc = "prompt" => Loads(content) = JSONDecodeError
    /\ (pc = "unwind" /\ pending.kind = "return") =>
         /\ pending.v = Loads(content)
         /\ pending.v # JSONDecodeError
    /\ pc = "confirm" =>
         /\ stack = <<>>
         /\ pending.kind = "return"
         /\ bit = Loads(content)
         /\ bit # JSONDecodeError
    /\ (pending.kind = "SystemExit" /\ pending.arg = "Aborted") =>
         /\ pc \in {"unwind", "done"}
         /\ Loads(content) = JSONDecodeError
         /\ Normalise(answer) = <<"n">>
         /\ confirm = Unset
         /\ bit \in ClaudeOutputs
         /\ pc = "done" => (stack = <<>> /\ exitCode # -1)

\* C2 witness: Confirmed after a rewrite that differs from the draft, in a
\* second round
C2_Witness ==
    /\ pc = "confirm"
    /\ Cardinality(created) = 2
    /\ bit \in Rewrites
    /\ bit \notin ClaudeOutputs

\* C3: the exit code is 0 on normal completion and on every user-initiated
\* no-op or abort (empty input, "n" to "Re-edit?", "n" to "Add this bit?"),
\* and 1 on a missing API key, a structuring failure, or a failed editor or
\* rebuild subprocess.
C3_ExitCodes ==
    pc = "done" =>
      /\ pending.kind = "none" => exitCode = 0
      /\ (apiKey /\ text # Unset /\ Strip(text) = <<>>) => exitCode = 0
      /\ (pending.kind = "SystemExit" /\ pending.arg = "Aborted") => exitCode = 0
      /\ confirm = <<"n">> => exitCode = 0
      /\ ~apiKey => exitCode = 1
      /\ (apiKey /\ text # Unset /\ Strip(text) # <<>> /\ created = {}) =>
            exitCode = 1
      /\ pending.kind = "CalledProcessError" => exitCode = 1

\* C4: when the outermost open_in_editor call has finished, by any path, no
\* temporary file created during the invocation remains on disk.
C4_NoTempFileLeft ==
    (pc \in {"confirm", "add_bit", "done"} \/ stack = <<>>) =>
        /\ created \cap TempPaths = {}
        /\ files = {}

\* C4 witness: the loop was aborted in its third round, three files had
\* been created
C4_Witness ==
    /\ pc = "done"
    /\ Cardinality(created) = 3
    /\ pending.arg = "Aborted"

\* C5: an add_bit that writes the store leaves [B] ++ L: the finalized bit
\* at index 0, every earlier record after it in its order and unchanged, the
\* length one more; and an add_bit that succeeds has written the store.
C5_Prepend ==
    [][ /\ store' # store =>
            LET old == Records(store)
                new == Records(store')
            IN /\ pc = "add_bit"
               /\ Len(new) = Len(old) + 1
               /\ new[1] = bit'
               /\ new[1].m[K_title] = bit.m[K_title]
               /\ \A i \in 1..Len(old) : new[i + 1] = old[i]
        /\ (pc = "add_bit" /\ exitCode' = 0) => store' # store ]_vars

\* C5 witness: the second run has added a second bit in front of the first
C5_Witness ==
    /\ pc = "done"
    /\ exitCode = 0
    /\ runs = 2
    /\ Len(Records(store)) >= 2
    /\ Len(Records(store)) = Len(Records(store0)) + 1
    /\ Records(store)[1].m[K_id].s # Records(store)[2].m[K_id].s

\* C6: slugify's result is at most 50 characters long, holds only a-z, 0-9
\* and hyphens, and neither begins nor ends with a hyphen.
C6_SlugShape ==
    slugPc = "done" =>
        /\ Len(slugOut) <= SlugMax
        /\ \A i \in 1..Len(slugOut) : slugOut[i] \in SlugChars \cup {"-"}
        /\ slugOut # <<>> => (slugOut[1] # "-" /\ slugOut[Len(slugOut)] # "-")

\* the keys the claim names as stripped when empty
NamedOptional == {K_url, K_content, K_via, K_tags}

C8_TitleNonEmpty ==
    \A i \in 1..Len(Records(store)) :
        LET rec == Records(store)[i].m
        IN /\ K_title \in DOMAIN rec
           /\ rec[K_title].k = "str"
           /\ rec[K_title].s # <<>>

\* C9 as stated: at every point at most one temporary file of the edit loop
\* exists.
C9_AtMostOneTempFile == Cardinality(files) <= 1

\* C9 amended: each round's temporary file exists exactly while that round's
\* call is active: it is removed when the call returns or raises, not before
\* the next round is entered, so the files on disk are those of the active
\* rounds, one each.
C9_OneTempFilePerActiveRound ==
    /\ Cardinality(files) = Len(stack)
    /\ TempPaths = {stack[i].temp_path : i \in 1..Len(stack)}
    /\ \A i, j \in 1..Len(stack) :
          stack[i].temp_path = stack[j].temp_path => i = j

\* C9 witness: in the third round the files of the first two are still there
C9_Witness ==
    /\ pc = "edit"
    /\ Len(stack) = 3
    /\ Cardinality(files) = 3

\* a step that answers the "Re-edit?" prompt
ReEditAnswered == pc = "prompt" /\ pc' # "prompt"

\* the step has started a new round on a fresh file holding the
\* serialisation of the structuring output
Reopened ==
    /\ pc' = "edit"
    /\ Len(stack') = Len(stack) + 1
    /\ Top'.temp_path \notin created
    /\ TopFile' = Dumps(bit) \o <<Newline>>
    /\ bit' = bit

\* C10 as stated: any answer other than "n" / "N" starts a new round on the
\* original draft.
C10_AnyOtherAnswerReopens ==
    [][ (ReEditAnswered /\ answer' \notin {<<"n">>, <<"N">>}) => Reopened ]_vars

\* C10 amended: any answer that is not "n" once stripped of surrounding
\* white space and lower-cased (the empty answer included) starts a new
\* round whose fresh file holds the serialisation of the structuring output;
\* so the draft of every round is the draft of round 1.
C10_Reopens ==
    /\ [][ (ReEditAnswered /\ Normalise(answer') # <<"n">>) => Reopened ]_vars
    /\ [](\A i \in 1..Len(stack) :
             /\ stack[i].json_str = Dumps(bit)
             /\ Loads(stack[i].json_str) = bit)

\* C10 witness: a third round, entered by the empty answer after a broken
\* edit, opened on the original draft
C10_Witness ==
    /\ pc = "edit"
    /\ Len(stack) = 3
    /\ answer = <<>>
    /\ Loads(content) = JSONDecodeError
    /\ TopFile = Dumps(bit) \o <<Newline>>

====
